---- MODULE Spec2Model ----
(***************************************************************************)
(* Sparse Merkle proof verification (types/src/proof).                     *)
(*                                                                         *)
(* Hash values are modelled as terms of a free algebra, so that the hash   *)
(* functions are collision free and never produce the placeholder:         *)
(*   <<"P">>          SPARSE_MERKLE_PLACEHOLDER_HASH                       *)
(*   <<"B", b>>       AccountStateBlob::hash of blob b                     *)
(*   <<"L", k, vh>>   SparseMerkleLeafNode::hash                           *)
(*   <<"I", l, r>>    SparseMerkleInternalNode::hash                       *)
(*   <<"X", i>>       a digest that is the hash of nothing in the model    *)
(* A key is a 256-bit HashValue given by the set of its bit indices        *)
(* (bit 0 = most significant) that are 1.                                  *)
(* Option<T> is a sequence of length 0 (None) or 1 (Some).                 *)
(***************************************************************************)
EXTENDS Integers, Sequences, FiniteSets, TLC

VARIABLES
    tree,              \* the sparse Merkle tree: a map from keys to blobs
    proof,             \* self of the call of verify
    expected_root,     \* expected_root_hash
    element_key,       \* element_key
    element_blob,      \* element_blob
    actual_root_hash,  \* verify's local actual_root_hash, once it is computed
    result,            \* what verify returned
    pc,                \* "build", or the kind of call that was made
    config,            \* a NetworkConfig
    before,            \* config as it was before the last call on it
    files,             \* the files under the root directory, by full path
    call,              \* the last call on config: its name and its inputs
    returned,          \* what the last call on config returned
    calls              \* the number of calls made on config

proof_vars == <<tree, proof, expected_root, element_key, element_blob,
                actual_root_hash, result, pc>>

config_vars == <<config, before, files, call, returned, calls>>

vars == <<proof_vars, config_vars>>

\* HashValue::LENGTH_IN_BITS
LENGTH_IN_BITS == 256

\* Bounds of the model.
\* Largest number of leaves of a tree.
MaxLeaves == 2
\* Longest list of siblings of a forged proof.
MaxSiblings == 2
\* Largest number of calls made on a NetworkConfig.
MaxCalls == 4

None == <<>>

Some(x) == <<x>>

IsSome(o) == Len(o) = 1

Unwrap(o) == o[1]

\* The keys of a tree vary in these bits; all their other bits are 0.
TreeKeyBitPositions == {0, 1}

\* Queried keys and the keys of proof leaves also vary in the last bit.
KeyBitPositions == TreeKeyBitPositions \cup {LENGTH_IN_BITS - 1}

Keys == SUBSET KeyBitPositions

TreeKeys == SUBSET TreeKeyBitPositions

\* account state blobs
Blobs == {1, 2}

(***************************************************************************)
(* HashValue                                                               *)
(***************************************************************************)
PLACEHOLDER == <<"P">>

bit(k, i) == i \in k

\* bits from index 0 (MSB) to 255 (LSB)
iter_bits(k) == [i \in 1 .. LENGTH_IN_BITS |-> bit(k, i - 1)]

\* number of leading bits (MSB first) on which a and b agree
common_prefix_bits_len(a, b) ==
    LET differing == {i \in 0 .. (LENGTH_IN_BITS - 1) : bit(a, i) # bit(b, i)}
    IN  IF differing = {} THEN LENGTH_IN_BITS
        ELSE CHOOSE n \in differing : \A i \in differing : n <= i

(***************************************************************************)
(* Hashing of blobs and nodes                                              *)
(***************************************************************************)
BlobHash(b) == <<"B", b>>

LeafHash(leaf) == <<"L", leaf.key, leaf.value_hash>>

\* an internal node over two empty subtrees collapsed to the placeholder
InternalHash_Substituting(left_child, right_child) ==
    IF left_child = PLACEHOLDER /\ right_child = PLACEHOLDER
    THEN PLACEHOLDER
    ELSE <<"I", left_child, right_child>>

InternalHash(left_child, right_child) == <<"I", left_child, right_child>>

SparseMerkleLeafNode(key, value_hash) == [key |-> key, value_hash |-> value_hash]

SparseMerkleProof(leaf, siblings) == [leaf |-> leaf, siblings |-> siblings]

(***************************************************************************)
(* Iterator adaptors used by verify                                        *)
(***************************************************************************)
\* the iterator left as it is
rev_Forgotten(s) == s

rev(s) == [i \in 1 .. Len(s) |-> s[Len(s) + 1 - i]]

skip(s, n) == [i \in 1 .. (Len(s) - n) |-> s[i + n]]

zip(a, b) ==
    LET n == IF Len(a) <= Len(b) THEN Len(a) ELSE Len(b)
    IN  [i \in 1 .. n |-> <<a[i], b[i]>>]

\* the closure with the two arms exchanged
FoldStep_Swapped(hash, sibling_hash, b) ==
    IF b THEN InternalHash(hash, sibling_hash)
         ELSE InternalHash(sibling_hash, hash)

\* the closure passed to fold
FoldStep(hash, sibling_hash, b) ==
    IF b THEN InternalHash(sibling_hash, hash)
         ELSE InternalHash(hash, sibling_hash)

\* fold(init, f) over the pairs s[lo .. hi], left to right.  The pairs are
\* taken by halves, and the test on `left` makes the first half's result a
\* value before the second half starts (a hash is never the empty tuple), so
\* that a fold over 256 pairs is evaluated at a nesting depth of 8.
RECURSIVE fold(_, _, _, _)
fold(s, lo, hi, init) ==
    IF hi < lo THEN init
    ELSE IF lo = hi THEN FoldStep(init, s[lo][1], s[lo][2])
    ELSE LET mid  == (lo + hi) \div 2
             left == fold(s, lo, mid, init)
         IN  IF Len(left) > 0 THEN fold(s, mid + 1, hi, left) ELSE left

(***************************************************************************)
(* SparseMerkleProof::verify                                               *)
(***************************************************************************)
\* the length test with < for <=
SiblingsLenOk_Strict(p) == Len(p.siblings) < LENGTH_IN_BITS

\* ensure!(self.siblings.len() <= HashValue::LENGTH_IN_BITS)
SiblingsLenOk(p) == Len(p.siblings) <= LENGTH_IN_BITS

\* the arm without the comparison of the keys
InclusionCheck_NoKey(leaf, element_key_, blob) ==
    IF ~(BlobHash(blob) = leaf.value_hash) THEN "ValueHashMismatch"
    ELSE "Ok"

\* the arm without the comparison of the value hashes
InclusionCheck_NoValue(leaf, element_key_, blob) ==
    IF ~(element_key_ = leaf.key) THEN "NonInclusionWhereInclusionExpected"
    ELSE "Ok"

\* the arm (Some(blob), Some(leaf))
InclusionCheck(leaf, element_key_, blob) ==
    IF ~(element_key_ = leaf.key) THEN "NonInclusionWhereInclusionExpected"
    ELSE IF ~(BlobHash(blob) = leaf.value_hash) THEN "ValueHashMismatch"
    ELSE "Ok"

\* the arm with > for >=
NonInclusionCheck_Strict(leaf, element_key_, siblings) ==
    IF ~(element_key_ # leaf.key) THEN "KeyExistsInNonInclusionProof"
    ELSE IF ~(common_prefix_bits_len(element_key_, leaf.key) > Len(siblings))
        THEN "InvalidNonInclusionProof"
    ELSE "Ok"

\* the arm without the comparison of the keys
NonInclusionCheck_NoKey(leaf, element_key_, siblings) ==
    IF ~(common_prefix_bits_len(element_key_, leaf.key) >= Len(siblings))
        THEN "InvalidNonInclusionProof"
    ELSE "Ok"

\* the arm without the test of the common prefix
NonInclusionCheck_NoPrefix(leaf, element_key_, siblings) ==
    IF ~(element_key_ # leaf.key) THEN "KeyExistsInNonInclusionProof"
    ELSE "Ok"

\* the arm (None, Some(leaf))
NonInclusionCheck(leaf, element_key_, siblings) ==
    IF ~(element_key_ # leaf.key) THEN "KeyExistsInNonInclusionProof"
    ELSE IF ~(common_prefix_bits_len(element_key_, leaf.key) >= Len(siblings))
        THEN "InvalidNonInclusionProof"
    ELSE "Ok"

\* the match on (element_blob, self.leaf)
LeafClaimCheck(p, element_key_, element_blob_) ==
    IF IsSome(element_blob_) /\ IsSome(p.leaf)
        THEN InclusionCheck(Unwrap(p.leaf), element_key_, Unwrap(element_blob_))
    ELSE IF IsSome(element_blob_) /\ ~IsSome(p.leaf)
        THEN "NonInclusionWhereInclusionExpected"
    ELSE IF ~IsSome(element_blob_) /\ IsSome(p.leaf)
        THEN NonInclusionCheck(Unwrap(p.leaf), element_key_, p.siblings)
    ELSE "Ok"

CurrentHash(p) ==
    IF IsSome(p.leaf) THEN LeafHash(Unwrap(p.leaf)) ELSE PLACEHOLDER

\* the key's bits without the skip: from bit 255 down
KeyBitsForSiblings_NoSkip(p, element_key_) == rev(iter_bits(element_key_))

\* the bits of element_key that the siblings are zipped with
KeyBitsForSiblings(p, element_key_) ==
    skip(rev(iter_bits(element_key_)), LENGTH_IN_BITS - Len(p.siblings))

ActualRootHash(p, element_key_) ==
    LET pairs == zip(p.siblings, KeyBitsForSiblings(p, element_key_))
    IN  fold(pairs, 1, Len(pairs), CurrentHash(p))

\* verify without the comparison of the root hashes
VerifyRun_NoRootCheck(p, expected_root_hash, element_key_, element_blob_) ==
    IF ~SiblingsLenOk(p)
        THEN [result |-> "TooManySiblings", actual_root_hash |-> None]
    ELSE LET c == LeafClaimCheck(p, element_key_, element_blob_)
         IN  IF c # "Ok" THEN [result |-> c, actual_root_hash |-> None]
             ELSE [result |-> "Ok",
                   actual_root_hash |-> Some(ActualRootHash(p, element_key_))]

\* The outcome of verify is "Ok" or names the ensure! or bail! that returned:
\*   "TooManySiblings"                     ensure!(siblings.len() <= 256)
\*   "NonInclusionWhereInclusionExpected"  ensure!(element_key == leaf.key),
\*                                         bail!("Expected inclusion proof..")
\*   "ValueHashMismatch"                   ensure!(hash == leaf.value_hash)
\*   "KeyExistsInNonInclusionProof"        ensure!(element_key != leaf.key)
\*   "InvalidNonInclusionProof"            ensure!(common_prefix_bits_len >= ..)
\*   "RootMismatch"                        ensure!(actual_root_hash == expected)
\* the outcome of verify and its local actual_root_hash (None when an
\* earlier ensure! or bail! returned before it was computed)
VerifyRun(p, expected_root_hash, element_key_, element_blob_) ==
    IF ~SiblingsLenOk(p)
        THEN [result |-> "TooManySiblings", actual_root_hash |-> None]
    ELSE LET c == LeafClaimCheck(p, element_key_, element_blob_)
         IN  IF c # "Ok" THEN [result |-> c, actual_root_hash |-> None]
             ELSE LET actual == ActualRootHash(p, element_key_)
                  IN  IF ~(actual = expected_root_hash)
                          THEN [result |-> "RootMismatch",
                                actual_root_hash |-> Some(actual)]
                      ELSE [result |-> "Ok", actual_root_hash |-> Some(actual)]

Verify(p, expected_root_hash, element_key_, element_blob_) ==
    VerifyRun(p, expected_root_hash, element_key_, element_blob_).result

(***************************************************************************)
(* The sparse Merkle tree the proofs are about: a map from keys to blobs.  *)
(* A subtree with no key is PLACEHOLDER, a subtree with one key is that    *)
(* key's leaf, any other subtree at depth d is an internal node whose left *)
(* child holds the keys with bit d = 0 and whose right child those with    *)
(* bit d = 1.                                                              *)
(***************************************************************************)
TreeLeaf(t, k) == SparseMerkleLeafNode(k, BlobHash(t[k]))

RECURSIVE SubtreeHash(_, _, _)
SubtreeHash(t, ks, d) ==
    IF ks = {} THEN PLACEHOLDER
    ELSE IF Cardinality(ks) = 1 THEN LeafHash(TreeLeaf(t, CHOOSE k \in ks : TRUE))
    ELSE InternalHash(SubtreeHash(t, {k \in ks : ~bit(k, d)}, d + 1),
                      SubtreeHash(t, {k \in ks : bit(k, d)}, d + 1))

RootHash(t) == SubtreeHash(t, DOMAIN t, 0)

\* The proof the tree gives for the path of key k: the siblings on the way
\* down (bottom-up in the result) and what the path ends at.
RECURSIVE ProofFrom(_, _, _, _, _)
ProofFrom(t, ks, d, k, siblings) ==
    IF ks = {} THEN SparseMerkleProof(None, siblings)
    ELSE IF Cardinality(ks) = 1
        THEN SparseMerkleProof(Some(TreeLeaf(t, CHOOSE x \in ks : TRUE)), siblings)
    ELSE LET same  == {x \in ks : bit(x, d) = bit(k, d)}
             other == ks \ same
         IN  ProofFrom(t, same, d + 1, k,
                       <<SubtreeHash(t, other, d + 1)>> \o siblings)

GetWithProof(t, k) == ProofFrom(t, DOMAIN t, 0, k, <<>>)

EmptyTree == [k \in {} |-> 1]

\* the hashes of all nodes of the subtree of keys ks at depth d
RECURSIVE NodeHashes(_, _, _)
NodeHashes(t, ks, d) ==
    {SubtreeHash(t, ks, d)} \cup
    (IF Cardinality(ks) <= 1 THEN {}
     ELSE NodeHashes(t, {k \in ks : ~bit(k, d)}, d + 1)
          \cup NodeHashes(t, {k \in ks : bit(k, d)}, d + 1))

(***************************************************************************)
(* Network configuration (config/src/config/network_config.rs).            *)
(*                                                                         *)
(* A PeerId, a PathBuf and a NetworkAddress are sequences of strings; the  *)
(* empty path and the address whose text is empty are <<>>.  A private key *)
(* is a string, and the peer id derived from its public key is a value of  *)
(* its own that differs from key to key and from PeerId::default().        *)
(***************************************************************************)
NETWORK_PEERS_DEFAULT == <<"network_peers.config.toml">>

SEED_PEERS_DEFAULT == <<"seed_peers.toml">>

\* x25519 private keys a generator may return
PrivateKeys == {"k1", "k2"}

public_key(key) == <<"pub", key>>

\* AuthenticationKey::try_from(public key).unwrap().derived_address()
derived_address(pubkey) == <<"derived", pubkey[2]>>

\* PeerId::default()
PeerIdDefault == <<"default">>

\* peer ids a caller may pass to random_with_peer_id
GivenPeerIds == {PeerIdDefault, <<"given">>}

\* PathBuf::new()
EmptyPath == <<>>

is_empty(s) == Len(s) = 0

\* NetworkAddress::mock(), whose text is empty
MockAddress == <<>>

\* "/ip4/0.0.0.0/tcp/6180"
DefaultListenAddress == <<"ip4", "tcp">>

LibranetAddress == <<"ip4", "tcp", "ln-noise-ik", "ln-handshake">>

is_libranet_addr(addr) ==
    /\ Len(addr) >= 2
    /\ addr[Len(addr) - 1] = "ln-noise-ik"
    /\ addr[Len(addr)] = "ln-handshake"

\* NetworkPeersConfig: peers, a map from peer ids to public keys
NetworkPeersConfig(peers) == [peers |-> peers]

NetworkPeersDefault == NetworkPeersConfig([x \in {} |-> <<>>])

NetworkPeersValues ==
    {NetworkPeersDefault,
     NetworkPeersConfig([x \in {<<"given">>} |-> public_key("k1")])}

\* SeedPeersConfig: seed_peers, a map from peer ids to lists of addresses
SeedPeersConfig(seed_peers) == [seed_peers |-> seed_peers]

SeedPeersDefault == SeedPeersConfig([x \in {} |-> <<>>])

SeedPeersValues ==
    {SeedPeersDefault,
     SeedPeersConfig([x \in {<<"given">>} |-> <<LibranetAddress>>]),
     SeedPeersConfig([x \in {<<"given">>} |-> <<LibranetAddress, DefaultListenAddress>>])}

verify_libranet_addrs(seed) ==
    \A peer_id \in DOMAIN seed.seed_peers :
        \A i \in 1 .. Len(seed.seed_peers[peer_id]) :
            is_libranet_addr(seed.seed_peers[peer_id][i])

IdentityNone == [type |-> "None"]

from_config(key, peer_id) ==
    [type |-> "FromConfig", keypair |-> key, peer_id |-> peer_id]

from_storage(key_name, peer_id_name, backend) ==
    [type |-> "FromStorage", key_name |-> key_name,
     peer_id_name |-> peer_id_name, backend |-> backend]

peer_id_from_config(identity) ==
    IF identity.type = "FromConfig" THEN Some(identity.peer_id) ELSE None

unwrap_or_default(o) == IF IsSome(o) THEN Unwrap(o) ELSE PeerIdDefault

\* the fields of a NetworkConfig
NetworkConfig(network_id, identity, network_peers_file, network_peers, seed_peers_file, seed_peers, listen_address) ==
    [network_id |-> network_id,
     listen_address |-> listen_address,
     connectivity_check_interval_ms |-> 5000,
     mutual_authentication |-> FALSE,
     discovery_method |-> "None",
     identity |-> identity,
     network_peers_file |-> network_peers_file,
     network_peers |-> network_peers,
     seed_peers_file |-> seed_peers_file,
     seed_peers |-> seed_peers]

\* prepare_identity that replaces the peer id of every identity in the config
prepare_identity_AlwaysDerive(c, key) ==
    IF c.identity.type = "FromStorage" THEN c
    ELSE IF c.identity.type = "None"
    THEN [c EXCEPT !.identity = from_config(key, derived_address(public_key(key)))]
    ELSE [c EXCEPT !.identity.peer_id =
                       derived_address(public_key(c.identity.keypair))]

\* prepare_identity that leaves a missing identity missing
prepare_identity_SkipNone(c, key) ==
    IF c.identity.type = "FromConfig" /\ c.identity.peer_id = PeerIdDefault
    THEN [c EXCEPT !.identity.peer_id =
                       derived_address(public_key(c.identity.keypair))]
    ELSE c

\* key is the private key the generator returns when one is generated
prepare_identity(c, key) ==
    IF c.identity.type = "FromStorage" THEN c
    ELSE IF c.identity.type = "None"
    THEN LET peer_id == derived_address(public_key(key))
         IN  [c EXCEPT !.identity = from_config(key, peer_id)]
    ELSE LET pubkey  == public_key(c.identity.keypair)
             peer_id == derived_address(pubkey)
         IN  IF c.identity.peer_id = PeerIdDefault
             THEN [c EXCEPT !.identity.peer_id = peer_id]
             ELSE c

NetworkIdDefault == "Validator"

network_with_id(network_id, key) ==
    prepare_identity(
        NetworkConfig(network_id, IdentityNone, EmptyPath, NetworkPeersDefault,
                      EmptyPath, SeedPeersDefault, DefaultListenAddress),
        key)

Default(key) == network_with_id(NetworkIdDefault, key)

clone_for_template(c) == [c EXCEPT !.identity = IdentityNone]

\* format!("{}.{}", peer_id.to_string(), config_path)
default_path(c, config_path) ==
    LET peer_id == unwrap_or_default(peer_id_from_config(c.identity))
    IN  peer_id \o config_path

\* RootPath::full_path
full_path(root_dir, path) == root_dir \o path

\* PersistableConfig::load_config of a file that holds a config of some
\* kind: Some(config), or None for an error; ok is whether the file system
\* lets the file be read
load_config(fs, path, kind, ok) ==
    IF ok /\ path \in DOMAIN fs /\ fs[path].kind = kind
    THEN Some(fs[path].value)
    ELSE None

\* the file system after PersistableConfig::save_config has written a file
save_config(fs, path, kind, value) ==
    [x \in DOMAIN fs \cup {path} |->
        IF x = path THEN [kind |-> kind, value |-> value] ELSE fs[x]]

is_validator(network_role) == network_role = "Validator"

\* the validator check without its second ensure!
ValidatorCheck_FileOnly(c, network_role) ==
    is_validator(network_role) => is_empty(c.network_peers_file)

\* the two ensure! of load
ValidatorCheck(c, network_role) ==
    is_validator(network_role) =>
        /\ is_empty(c.network_peers_file)
        /\ DOMAIN c.network_peers.peers = {}

\* What load does to the config c and what it returns, with the files fs
\* under root_dir.  io tells which of the two files the file system lets be
\* read, local_ip is what utils::get_local_ip() returns, key is the private
\* key the generator would return.
LoadRun(c, fs, root_dir, network_role, io, local_ip, key) ==
    LET peers == load_config(fs, full_path(root_dir, c.network_peers_file),
                             "network_peers", io.network_peers)
        c1    == IF is_empty(c.network_peers_file) THEN c
                 ELSE [c EXCEPT !.network_peers = Unwrap(peers)]
        seed  == load_config(fs, full_path(root_dir, c.seed_peers_file),
                             "seed_peers", io.seed_peers)
        c2    == IF is_empty(c.seed_peers_file) THEN c1
                 ELSE [c1 EXCEPT !.seed_peers = Unwrap(seed)]
        c3    == IF is_empty(c2.listen_address)
                 THEN [c2 EXCEPT !.listen_address = Unwrap(local_ip)]
                 ELSE c2
    IN  IF ~is_empty(c.network_peers_file) /\ ~IsSome(peers)
        THEN [config |-> c, result |-> "Err"]
        ELSE IF ~is_empty(c.seed_peers_file) /\ ~IsSome(seed)
        THEN [config |-> c1, result |-> "Err"]
        ELSE IF ~is_empty(c.seed_peers_file) /\ ~verify_libranet_addrs(c2.seed_peers)
        THEN [config |-> c2, result |-> "Err"]
        ELSE IF is_empty(c2.listen_address) /\ ~IsSome(local_ip)
        THEN [config |-> c2, result |-> "Err"]
        ELSE IF ~ValidatorCheck(c3, network_role)
        THEN [config |-> c3, result |-> "Err"]
        ELSE [config |-> prepare_identity(c3, key), result |-> "Ok"]

\* save that writes network_peers whatever it holds
SaveRun_AlwaysNetworkPeers(c, fs, root_dir, io) ==
    LET c1  == IF is_empty(c.network_peers_file)
               THEN [c EXCEPT !.network_peers_file =
                                  default_path(c, NETWORK_PEERS_DEFAULT)]
               ELSE c
        fs1 == save_config(fs, full_path(root_dir, c1.network_peers_file),
                           "network_peers", c1.network_peers)
        c2  == IF is_empty(c1.seed_peers_file)
               THEN [c1 EXCEPT !.seed_peers_file =
                                   default_path(c1, SEED_PEERS_DEFAULT)]
               ELSE c1
        fs2 == save_config(fs1, full_path(root_dir, c2.seed_peers_file),
                           "seed_peers", c2.seed_peers)
    IN  IF ~io.network_peers
        THEN [config |-> c1, files |-> fs, result |-> "Err"]
        ELSE IF ~io.seed_peers
        THEN [config |-> c2, files |-> fs1, result |-> "Err"]
        ELSE [config |-> c2, files |-> fs2, result |-> "Ok"]

\* What save does to the config c and to the files fs under root_dir, and
\* what it returns.  io tells which of the two files the file system lets be
\* written.
SaveRun(c, fs, root_dir, io) ==
    LET writes == c.network_peers # NetworkPeersDefault
        c1  == IF writes /\ is_empty(c.network_peers_file)
               THEN [c EXCEPT !.network_peers_file =
                                  default_path(c, NETWORK_PEERS_DEFAULT)]
               ELSE c
        fs1 == IF writes
               THEN save_config(fs, full_path(root_dir, c1.network_peers_file),
                                "network_peers", c1.network_peers)
               ELSE fs
        c2  == IF is_empty(c1.seed_peers_file)
               THEN [c1 EXCEPT !.seed_peers_file =
                                   default_path(c1, SEED_PEERS_DEFAULT)]
               ELSE c1
        fs2 == save_config(fs1, full_path(root_dir, c2.seed_peers_file),
                           "seed_peers", c2.seed_peers)
    IN  IF writes /\ ~io.network_peers
        THEN [config |-> c1, files |-> fs, result |-> "Err"]
        ELSE IF ~io.seed_peers
        THEN [config |-> c2, files |-> fs1, result |-> "Err"]
        ELSE [config |-> c2, files |-> fs2, result |-> "Ok"]

\* identity_key is the private key generated from rng
random_with_peer_id(c, identity_key, peer_id) ==
    LET id == IF IsSome(peer_id) THEN Unwrap(peer_id)
              ELSE derived_address(public_key(identity_key))
    IN  [c EXCEPT !.identity = from_config(identity_key, id)]

random(c, identity_key) == random_with_peer_id(c, identity_key, None)

(***************************************************************************)
(* State machine: a tree is built, then verify is called once, on a proof  *)
(* from the tree (VerifyProver), on such a proof changed in one place      *)
(* (VerifyTampered), on such a proof padded to LENGTH_IN_BITS siblings or  *)
(* one more (VerifyLong), on the two-leaf scenario with a root assembled   *)
(* by hand (VerifyTwoLeaves), or on any proof an untrusted prover makes up *)
(* (VerifyForged).                                                         *)
(***************************************************************************)
NoProof == SparseMerkleProof(None, <<>>)

\* a digest that is the hash of no node or blob
Foreign == <<"X", 0>>

Claims == {None} \cup {Some(b) : b \in Blobs}

\* digests an untrusted prover may put into a proof against tree t
HashPool(t) == NodeHashes(t, DOMAIN t, 0) \cup {PLACEHOLDER, Foreign}

ValueHashes == {BlobHash(b) : b \in Blobs}

Leaves ==
    {None} \cup {Some(SparseMerkleLeafNode(k, vh)) : k \in Keys, vh \in ValueHashes}

SeqsUpTo(S, n) == UNION {[1 .. m -> S] : m \in 0 .. n}

\* no file under the root directory
NoFiles == [x \in {} |-> <<>>]

\* no call was made on config yet
NoCall == [name |-> "none", network_role |-> "FullNode", local_ip |-> None]

Init ==
    /\ tree = EmptyTree
    /\ proof = NoProof
    /\ expected_root = PLACEHOLDER
    /\ element_key = {}
    /\ element_blob = None
    /\ actual_root_hash = None
    /\ result = "None"
    /\ pc = "build"
    /\ config = Default("k1")
    /\ before = config
    /\ files = NoFiles
    /\ call = NoCall
    /\ returned = "None"
    /\ calls = 0

Insert(k, b) ==
    /\ pc = "build"
    /\ k \notin DOMAIN tree
    /\ Cardinality(DOMAIN tree) < MaxLeaves
    /\ tree' = [x \in DOMAIN tree \cup {k} |-> IF x = k THEN b ELSE tree[x]]
    /\ UNCHANGED <<proof, expected_root, element_key, element_blob,
                   actual_root_hash, result, pc>>
    /\ UNCHANGED config_vars

Call(op, p, root, k, blob) ==
    LET run == VerifyRun(p, root, k, blob)
    IN  /\ proof' = p
        /\ expected_root' = root
        /\ element_key' = k
        /\ element_blob' = blob
        /\ actual_root_hash' = run.actual_root_hash
        /\ result' = run.result
        /\ pc' = op
        /\ UNCHANGED tree
        /\ UNCHANGED config_vars

\* verify on the proof the tree gives for the path of key pk, queried with key k
VerifyProver ==
    /\ pc = "build"
    /\ LET root == RootHash(tree)
       IN  \E pk \in Keys :
               LET p == GetWithProof(tree, pk)
               IN  \E k \in Keys, blob \in Claims : Call("prover", p, root, k, blob)

\* verify on the inclusion proof of a key of the tree with one sibling, the
\* leaf's key, the leaf's value hash or the expected root changed
VerifyTampered ==
    /\ pc = "build"
    /\ \E k \in DOMAIN tree :
           LET root == RootHash(tree)
               p    == GetWithProof(tree, k)
               leaf == Unwrap(p.leaf)
               blob == Some(tree[k])
           IN  \/ \E i \in 1 .. Len(p.siblings), h \in HashPool(tree) :
                      /\ h # p.siblings[i]
                      /\ Call("sibling",
                              SparseMerkleProof(p.leaf, [p.siblings EXCEPT ![i] = h]),
                              root, k, blob)
               \/ \E k2 \in Keys \ {k} :
                      Call("leaf_key",
                           SparseMerkleProof(
                               Some(SparseMerkleLeafNode(k2, leaf.value_hash)),
                               p.siblings),
                           root, k, blob)
               \/ \E vh \in (ValueHashes \cup {PLACEHOLDER}) \ {leaf.value_hash} :
                      Call("value_hash",
                           SparseMerkleProof(Some(SparseMerkleLeafNode(k, vh)),
                                             p.siblings),
                           root, k, blob)
               \/ \E r \in HashPool(tree) \ {root} :
                      Call("root", p, r, k, blob)

\* verify against the tree's root on the proof for the path of pk with
\* placeholder siblings added at the top up to LENGTH_IN_BITS or
\* LENGTH_IN_BITS + 1 siblings
VerifyLong ==
    /\ pc = "build"
    /\ LET root == RootHash(tree)
       IN  \E pk \in TreeKeys :
               LET p == GetWithProof(tree, pk)
               IN  \E n \in {LENGTH_IN_BITS, LENGTH_IN_BITS + 1},
                      k \in Keys, blob \in Claims :
                       Call("long",
                            SparseMerkleProof(p.leaf,
                                [i \in 1 .. n |->
                                    IF i <= Len(p.siblings) THEN p.siblings[i]
                                    ELSE PLACEHOLDER]),
                            root, k, blob)

\* two leaves k0 and k1 under a root assembled as InternalNode(Leaf(k0),
\* Leaf(k1)): the inclusion proof of k0 with the one sibling Leaf(k1).hash()
VerifyTwoLeaves ==
    /\ pc = "build"
    /\ DOMAIN tree = {}
    /\ \E k0 \in Keys, k1 \in Keys, b0 \in Blobs, b1 \in Blobs :
           LET leaf0 == SparseMerkleLeafNode(k0, BlobHash(b0))
               leaf1 == SparseMerkleLeafNode(k1, BlobHash(b1))
           IN  /\ k0 # k1
               /\ Call("two_leaves",
                       SparseMerkleProof(Some(leaf0), <<LeafHash(leaf1)>>),
                       InternalHash(LeafHash(leaf0), LeafHash(leaf1)),
                       k0, Some(b0))

\* the key 0xFF..FF and the keys that differ from it in one bit of its first
\* two bytes
AllOnes == 0 .. (LENGTH_IN_BITS - 1)

NearAllOnes == {AllOnes \ {i} : i \in 0 .. 15}

\* the tree with the single leaf 0xFF..FF: its proof, with no sibling or with
\* made-up ones, queried with 0xFF..FF or with a key close to it
VerifySingleLeaf ==
    /\ pc = "build"
    /\ DOMAIN tree = {}
    /\ \E b \in Blobs, n \in 0 .. 16, h \in {PLACEHOLDER, Foreign},
          k \in {AllOnes} \cup NearAllOnes, blob \in Claims :
           LET leaf == SparseMerkleLeafNode(AllOnes, BlobHash(b))
           IN  Call("single_leaf",
                    SparseMerkleProof(Some(leaf), [i \in 1 .. n |-> h]),
                    LeafHash(leaf), k, blob)

\* verify against the tree's root on any proof of at most MaxSiblings siblings
VerifyForged ==
    /\ pc = "build"
    /\ LET root == RootHash(tree)
       IN  \E leaf \in Leaves, siblings \in SeqsUpTo(HashPool(tree), MaxSiblings),
              k \in Keys, blob \in Claims :
               Call("forged", SparseMerkleProof(leaf, siblings), root, k, blob)

Next ==
    \/ \E k \in TreeKeys, b \in Blobs : Insert(k, b)
    \/ VerifyProver
    \/ VerifyTampered
    \/ VerifyLong
    \/ VerifyTwoLeaves
    \/ VerifySingleLeaf

Spec == Init /\ [][Next]_vars

NextForged ==
    \/ \E k \in TreeKeys, b \in Blobs : Insert(k, b)
    \/ VerifyForged

SpecForged == Init /\ [][NextForged]_vars

(***************************************************************************)
(* State machine of a NetworkConfig: it is constructed, and then any of    *)
(* its methods is called on it or one of its public fields is assigned,    *)
(* MaxCalls times.  clone_for_template continues with the clone.           *)
(***************************************************************************)
RootDir == <<"root">>

RoleTypes == {"Validator", "FullNode"}

NetworkIds == {NetworkIdDefault, "Public"}

FileSystemOutcomes == [network_peers : BOOLEAN, seed_peers : BOOLEAN]

\* a call named name, with what it was given as network_role and what it got
\* from utils::get_local_ip(), leaves config as c, the files as fs and
\* returns r
ConfigCall(name, network_role, local_ip, c, fs, r) ==
    /\ calls < MaxCalls
    /\ calls' = calls + 1
    /\ before' = config
    /\ config' = c
    /\ files' = fs
    /\ call' = [name |-> name, network_role |-> network_role,
                local_ip |-> local_ip]
    /\ returned' = r
    /\ UNCHANGED proof_vars

NetworkWithId ==
    \E network_id \in NetworkIds, key \in PrivateKeys :
        ConfigCall("network_with_id", "FullNode", None,
                   network_with_id(network_id, key), files, "Ok")

CloneForTemplate ==
    ConfigCall("clone_for_template", "FullNode", None,
               clone_for_template(config), files, "Ok")

Load ==
    \E network_role \in RoleTypes, io \in FileSystemOutcomes,
       local_ip \in {None, Some(DefaultListenAddress)}, key \in PrivateKeys :
        LET run == LoadRun(config, files, RootDir, network_role, io, local_ip, key)
        IN  ConfigCall("load", network_role, local_ip, run.config, files,
                       run.result)

Save ==
    \E io \in FileSystemOutcomes :
        LET run == SaveRun(config, files, RootDir, io)
        IN  ConfigCall("save", "FullNode", None, run.config, run.files,
                       run.result)

Random ==
    \E identity_key \in PrivateKeys :
        ConfigCall("random", "FullNode", None, random(config, identity_key),
                   files, "Ok")

RandomWithPeerId ==
    \E identity_key \in PrivateKeys,
       peer_id \in {None} \cup {Some(id) : id \in GivenPeerIds} :
        ConfigCall("random_with_peer_id", "FullNode", None,
                   random_with_peer_id(config, identity_key, peer_id),
                   files, "Ok")

\* an assignment to a public field, as the tests make them
SetField ==
    \/ \E v \in NetworkPeersValues :
           ConfigCall("set", "FullNode", None, [config EXCEPT !.network_peers = v],
                      files, "Ok")
    \/ \E v \in SeedPeersValues :
           ConfigCall("set", "FullNode", None, [config EXCEPT !.seed_peers = v],
                      files, "Ok")
    \/ \E a \in {MockAddress, DefaultListenAddress} :
           ConfigCall("set", "FullNode", None, [config EXCEPT !.listen_address = a],
                      files, "Ok")
    \/ ConfigCall("set", "FullNode", None,
                  [config EXCEPT !.identity =
                       from_storage("key", "peer_id", "backend")],
                  files, "Ok")

NextConfig ==
    \/ NetworkWithId
    \/ CloneForTemplate
    \/ Load
    \/ Save
    \/ Random
    \/ RandomWithPeerId
    \/ SetField

SpecConfig == Init /\ [][NextConfig]_vars

(***************************************************************************)
(* Properties                                                              *)
(***************************************************************************)
Called == pc # "build"

NumSiblings == Len(proof.siblings)

\* The walk up from `cur` over siblings lo .. hi (level l is sibling l + 1),
\* written with the index of the key bit used at each level: with lsb, bit
\* 255 - l; otherwise bit n - 1 - l, where n is the number of siblings.
RECURSIVE Walk(_, _, _, _, _, _)
Walk(siblings, k, lsb, lo, hi, cur) ==
    IF hi < lo THEN cur
    ELSE IF lo = hi THEN
        LET l == lo - 1
            b == IF lsb THEN bit(k, LENGTH_IN_BITS - 1 - l)
                 ELSE bit(k, Len(siblings) - 1 - l)
        IN  IF b THEN <<"I", siblings[lo], cur>> ELSE <<"I", cur, siblings[lo]>>
    ELSE LET mid  == (lo + hi) \div 2
             left == Walk(siblings, k, lsb, lo, mid, cur)
         IN  IF Len(left) > 0 THEN Walk(siblings, k, lsb, mid + 1, hi, left)
             ELSE left

Bottom(p) ==
    IF p.leaf = <<>> THEN <<"P">>
    ELSE <<"L", p.leaf[1].key, p.leaf[1].value_hash>>

WalkMsb(p, k) == Walk(p.siblings, k, FALSE, 1, Len(p.siblings), Bottom(p))

WalkLsb(p, k) == Walk(p.siblings, k, TRUE, 1, Len(p.siblings), Bottom(p))

\* the tree maps k to blob b / has no key k
Maps(t, k, b) == k \in DOMAIN t /\ t[k] = b

\* C1: adversarial soundness.  Whatever the proof, if verify against the
\* root of the tree returns Ok for (k, Some(v)) then the tree maps k to v, and
\* if it returns Ok for (k, None) then k is not a key of the tree.
C1_AdversarialSoundness ==
    (Called /\ expected_root = RootHash(tree) /\ result = "Ok") =>
        IF IsSome(element_blob)
            THEN Maps(tree, element_key, Unwrap(element_blob))
            ELSE element_key \notin DOMAIN tree

\* a forged proof of two siblings is accepted for an inclusion claim
C1_Witness ==
    /\ pc = "forged"
    /\ result = "Ok"
    /\ IsSome(element_blob)
    /\ NumSiblings = 2

\* the proof and the call are those of the prover for key k of the tree
HonestInclusion(p, root, k, blob) ==
    /\ k \in DOMAIN tree
    /\ blob = Some(tree[k])
    /\ p = GetWithProof(tree, k)
    /\ root = RootHash(tree)

\* p differs from q in exactly one sibling
OneSiblingChanged(p, q) ==
    /\ p.leaf = q.leaf
    /\ Len(p.siblings) = Len(q.siblings)
    /\ Cardinality({i \in 1 .. Len(q.siblings) : p.siblings[i] # q.siblings[i]}) = 1

\* the call differs from the prover's call for element_key in one place: one
\* sibling, the leaf's key, the leaf's value hash, or the expected root
OneChange ==
    /\ element_key \in DOMAIN tree
    /\ element_blob = Some(tree[element_key])
    /\ LET q == GetWithProof(tree, element_key)
       IN  \/ OneSiblingChanged(proof, q) /\ expected_root = RootHash(tree)
           \/ /\ proof.siblings = q.siblings
              /\ IsSome(proof.leaf)
              /\ Unwrap(proof.leaf).key # Unwrap(q.leaf).key
              /\ Unwrap(proof.leaf).value_hash = Unwrap(q.leaf).value_hash
              /\ expected_root = RootHash(tree)
           \/ /\ proof.siblings = q.siblings
              /\ IsSome(proof.leaf)
              /\ Unwrap(proof.leaf).key = Unwrap(q.leaf).key
              /\ Unwrap(proof.leaf).value_hash # Unwrap(q.leaf).value_hash
              /\ expected_root = RootHash(tree)
           \/ proof = q /\ expected_root # RootHash(tree)

\* C2: inclusion soundness.  The prover's proof for a leaf (k, v) of the
\* tree verifies against the tree's root with Some(v); with one sibling, the
\* leaf's key, the leaf's value hash or the expected root changed, it fails.
C2_InclusionSoundness ==
    Called =>
        /\ HonestInclusion(proof, expected_root, element_key, element_blob)
               => result = "Ok"
        /\ OneChange => result # "Ok"

\* the prover's inclusion proof of a leaf at depth 2 is accepted
C2_Witness ==
    /\ pc = "prover"
    /\ HonestInclusion(proof, expected_root, element_key, element_blob)
    /\ NumSiblings = 2
    /\ result = "Ok"

\* a proof with one changed sibling is rejected
C2_WitnessTampered ==
    /\ pc = "sibling"
    /\ OneChange
    /\ NumSiblings = 2
    /\ result = "RootMismatch"

\* The scenario of two leaves k0 = element_key and k1 that differ in bit
\* `at` (k0 has 0, k1 has 1) under the root InternalNode(Leaf(k0), Leaf(k1)),
\* with the one-sibling inclusion proof of k0.
TwoLeaves(at) ==
    /\ pc = "two_leaves"
    /\ NumSiblings = 1
    /\ proof.siblings[1][1] = "L"
    /\ expected_root = <<"I", Bottom(proof), proof.siblings[1]>>
    /\ ~bit(element_key, at)
    /\ bit(proof.siblings[1][2], at)

\* C3 as stated: level l uses bit 255 - l of the key (siblings[0] pairs with
\* the least significant bit), and the one-sibling inclusion proof of k0
\* verifies when k0 and k1 differ in bit 255.
C3_AsStated ==
    /\ (Called /\ IsSome(actual_root_hash))
           => Unwrap(actual_root_hash) = WalkLsb(proof, element_key)
    /\ TwoLeaves(LENGTH_IN_BITS - 1) => result = "Ok"

\* C3, amended: with n siblings, level l uses bit n - 1 - l of the key
\* (siblings[0] pairs with bit n - 1, the last sibling with bit 0, the most
\* significant one); a 1 bit puts the sibling on the left, a 0 bit on the
\* right.  The one-sibling inclusion proof of k0 verifies when k0 and k1
\* differ in bit 0.
C3_SiblingWalk ==
    /\ (Called /\ IsSome(actual_root_hash))
           => Unwrap(actual_root_hash) = WalkMsb(proof, element_key)
    /\ TwoLeaves(0) => result = "Ok"

\* a two-sibling walk where the key's bits 0, 1 and 255 are not all equal
C3_Witness ==
    /\ Called
    /\ IsSome(actual_root_hash)
    /\ NumSiblings = 2
    /\ bit(element_key, 0) # bit(element_key, 1)
    /\ bit(element_key, 1) # bit(element_key, LENGTH_IN_BITS - 1)
    /\ result = "Ok"

\* the proof is the one the tree gives for its leaf k2, and the call is a
\* non-inclusion query, against the tree's root, for a key not in the tree
NamesLeaf(k2) ==
    /\ element_blob = None
    /\ element_key \notin DOMAIN tree
    /\ k2 \in DOMAIN tree
    /\ proof = GetWithProof(tree, k2)
    /\ expected_root = RootHash(tree)

\* C4: non-inclusion, occupied subtree.  For a key k that is no key of the
\* tree and a leaf k2 of the tree, the proof naming k2 verifies with
\* (k, None) if and only if common_prefix_bits_len(k, k2) >= siblings.len().
C4_OccupiedSubtree ==
    (Called /\ IsSome(proof.leaf) /\ NamesLeaf(Unwrap(proof.leaf).key)) =>
        (result = "Ok" <=>
            common_prefix_bits_len(element_key, Unwrap(proof.leaf).key)
                >= NumSiblings)

\* a key that shares exactly the path of a leaf below the root
C4_Witness ==
    /\ pc = "prover"
    /\ IsSome(proof.leaf)
    /\ NamesLeaf(Unwrap(proof.leaf).key)
    /\ NumSiblings >= 1
    /\ common_prefix_bits_len(element_key, Unwrap(proof.leaf).key) = NumSiblings
    /\ result = "Ok"

\* a key that leaves the path of a leaf at depth 2 at its second bit
C4_WitnessShort ==
    /\ pc = "prover"
    /\ IsSome(proof.leaf)
    /\ NamesLeaf(Unwrap(proof.leaf).key)
    /\ NumSiblings = 2
    /\ common_prefix_bits_len(element_key, Unwrap(proof.leaf).key) = 1
    /\ result = "InvalidNonInclusionProof"

\* the proof is the one the tree gives for the path of element_key, which
\* ends at an empty subtree
EndsAtEmptySubtree ==
    /\ element_blob = None
    /\ proof = GetWithProof(tree, element_key)
    /\ proof.leaf = None
    /\ expected_root = RootHash(tree)

\* C5: non-inclusion, empty subtree.  For a key whose path in the tree ends
\* at an empty subtree, the prover's proof (no leaf, the siblings of that
\* position) verifies with (k, None); the empty proof verifies against
\* PLACEHOLDER for every key.
C5_EmptySubtree ==
    Called =>
        /\ EndsAtEmptySubtree => result = "Ok"
        /\ (element_blob = None /\ proof = NoProof /\ expected_root = PLACEHOLDER)
               => result = "Ok"

\* an empty subtree below the root
C5_Witness ==
    /\ pc = "prover"
    /\ EndsAtEmptySubtree
    /\ NumSiblings >= 1
    /\ bit(element_key, 0) # bit(element_key, LENGTH_IN_BITS - 1)
    /\ result = "Ok"

\* C6: exclusivity.  No proof, root and key verify both with Some(v) and
\* with None.
C6_Exclusivity ==
    (Called /\ result = "Ok") =>
        IF IsSome(element_blob)
            THEN Verify(proof, expected_root, element_key, None) # "Ok"
            ELSE \A b \in Blobs :
                     Verify(proof, expected_root, element_key, Some(b)) # "Ok"

\* an accepted inclusion proof of two siblings, refused as a non-inclusion proof
C6_Witness ==
    /\ Called
    /\ result = "Ok"
    /\ IsSome(element_blob)
    /\ NumSiblings = 2
    /\ Verify(proof, expected_root, element_key, None)
           = "KeyExistsInNonInclusionProof"

\* C7: a proof of more than 256 siblings fails with TooManySiblings whatever
\* its leaf, the key, the value and the root, before anything else is
\* looked at; a proof of exactly 256 siblings is not refused for its length.
C7_TooManySiblings ==
    Called =>
        /\ NumSiblings > 256 => (result = "TooManySiblings" /\ actual_root_hash = None)
        /\ NumSiblings <= 256 => result # "TooManySiblings"

\* 257 siblings, in a call that any later check would refuse as well
C7_Witness ==
    /\ pc = "long"
    /\ NumSiblings = 257
    /\ IsSome(element_blob)
    /\ proof.leaf = None
    /\ result = "TooManySiblings"

\* 256 siblings pass the length check
C7_WitnessAtLimit ==
    /\ pc = "long"
    /\ NumSiblings = 256
    /\ IsSome(actual_root_hash)

\* C8: failures of an inclusion claim.  With a value and at most 256
\* siblings, verify fails with NonInclusionWhereInclusionExpected when the
\* proof has no leaf or a leaf of another key, and with ValueHashMismatch
\* when the leaf has the key and another value hash, whatever the root.
C8_InclusionFailures ==
    (Called /\ IsSome(element_blob) /\ NumSiblings <= 256) =>
        /\ (proof.leaf = None \/ Unwrap(proof.leaf).key # element_key)
               => result = "NonInclusionWhereInclusionExpected"
        /\ (/\ IsSome(proof.leaf)
            /\ Unwrap(proof.leaf).key = element_key
            /\ Unwrap(proof.leaf).value_hash # <<"B", Unwrap(element_blob)>>)
               => result = "ValueHashMismatch"

\* a value hash mismatch on a proof whose walk ends at the expected root
C8_Witness ==
    /\ Called
    /\ IsSome(element_blob)
    /\ NumSiblings = 2
    /\ result = "ValueHashMismatch"
    /\ WalkMsb(proof, element_key) = expected_root

\* C9: failures of a non-inclusion claim.  With no value, a leaf in the
\* proof and at most 256 siblings, verify fails with
\* KeyExistsInNonInclusionProof when the leaf has the queried key, and
\* otherwise with InvalidNonInclusionProof when the common prefix of the two
\* keys is shorter than the list of siblings, whatever the root.
C9_NonInclusionFailures ==
    (Called /\ element_blob = None /\ IsSome(proof.leaf) /\ NumSiblings <= 256) =>
        /\ Unwrap(proof.leaf).key = element_key
               => result = "KeyExistsInNonInclusionProof"
        /\ (/\ Unwrap(proof.leaf).key # element_key
            /\ common_prefix_bits_len(element_key, Unwrap(proof.leaf).key)
                   < NumSiblings)
               => result = "InvalidNonInclusionProof"

\* common prefix 7 with 8 siblings
C9_Witness ==
    /\ pc = "single_leaf"
    /\ element_blob = None
    /\ common_prefix_bits_len(element_key, Unwrap(proof.leaf).key) = 7
    /\ NumSiblings = 8
    /\ result = "InvalidNonInclusionProof"

\* the leaf of the proof agrees with the claim
Consistent ==
    IF IsSome(element_blob)
        THEN /\ IsSome(proof.leaf)
             /\ Unwrap(proof.leaf).key = element_key
             /\ Unwrap(proof.leaf).value_hash = <<"B", Unwrap(element_blob)>>
        ELSE \/ proof.leaf = None
             \/ /\ Unwrap(proof.leaf).key # element_key
                /\ common_prefix_bits_len(element_key, Unwrap(proof.leaf).key)
                       >= NumSiblings

Outcomes ==
    {"Ok", "TooManySiblings", "NonInclusionWhereInclusionExpected",
     "ValueHashMismatch", "KeyExistsInNonInclusionProof",
     "InvalidNonInclusionProof", "RootMismatch"}

\* C10: verify returns Ok exactly when there are at most 256 siblings, the
\* leaf agrees with the claim and the walk from the leaf's hash (PLACEHOLDER
\* without a leaf) ends at the expected root; it returns RootMismatch
\* exactly when the first two hold and the walk ends elsewhere.
C10_TotalOutcome ==
    Called =>
        /\ result \in Outcomes
        /\ result = "Ok" <=>
               (/\ NumSiblings <= 256
                /\ Consistent
                /\ WalkMsb(proof, element_key) = expected_root)
        /\ result = "RootMismatch" <=>
               (/\ NumSiblings <= 256
                /\ Consistent
                /\ WalkMsb(proof, element_key) # expected_root)

\* a consistent proof of 256 siblings refused at the root check
C10_Witness ==
    /\ Called
    /\ NumSiblings = 256
    /\ Consistent
    /\ result = "RootMismatch"

\* a consistent proof accepted at the root check
C10_WitnessOk ==
    /\ Called
    /\ NumSiblings = 2
    /\ element_blob = None
    /\ IsSome(proof.leaf)
    /\ result = "Ok"

\* two keys agree on their first n bits (bit indices 0 .. n-1)
AgreeOnFirstBits(k1, k2, n) ==
    \A i \in 0 .. (n - 1) : bit(k1, i) = bit(k2, i)

\* keys a call is compared with
OtherKeys == Keys \cup {AllOnes} \cup NearAllOnes

\* a key may replace element_key in a non-inclusion query of the call's proof
Replaces(k2) ==
    /\ AgreeOnFirstBits(element_key, k2, NumSiblings)
    /\ IsSome(proof.leaf) =>
           /\ element_key # Unwrap(proof.leaf).key
           /\ k2 # Unwrap(proof.leaf).key

\* C16: for a proof of n <= 256 siblings and a fixed expected root, the
\* non-inclusion queries of two keys that agree on bit indices 0 .. n-1 and
\* both differ from the proof leaf's key have the same outcome and the same
\* fold: key bits at index >= n have no influence.
C16_FirstBitsOnly ==
    (Called /\ element_blob = None /\ NumSiblings <= LENGTH_IN_BITS) =>
        \A k2 \in OtherKeys :
            Replaces(k2) =>
                VerifyRun(proof, expected_root, k2, None) =
                    [result |-> result, actual_root_hash |-> actual_root_hash]

\* an accepted non-inclusion query on an occupied subtree, with another key
\* that differs from element_key only past the siblings
C16_Witness ==
    /\ Called /\ element_blob = None /\ result = "Ok"
    /\ IsSome(proof.leaf)
    /\ NumSiblings >= 1
    /\ \E k2 \in OtherKeys : k2 # element_key /\ Replaces(k2)

\* the first part of C17 for one bound on the number of siblings
NoLeafNeverPlaceholder(most) ==
    (/\ proof.leaf = None
     /\ NumSiblings >= 1 /\ NumSiblings <= most
     /\ expected_root = PLACEHOLDER
     /\ element_blob = None) => result = "RootMismatch"

\* the last sibling is a child, as it is given, of the root verify computes
LastSiblingLiteral ==
    (IsSome(actual_root_hash) /\ NumSiblings >= 1) =>
        LET root == Unwrap(actual_root_hash)
        IN  /\ root[1] = "I"
            /\ proof.siblings[NumSiblings] \in {root[2], root[3]}

\* with no siblings verify accepts only the placeholder or the leaf's hash
NoSiblingsRoot ==
    (NumSiblings = 0 /\ result = "Ok") =>
        expected_root = (IF IsSome(proof.leaf) THEN LeafHash(Unwrap(proof.leaf))
                         ELSE PLACEHOLDER)

\* C17 as stated: for every n >= 1 the query verify(PLACEHOLDER, k, None) of a
\* proof without a leaf gives RootMismatch.
C17_AsStated ==
    Called => NoLeafNeverPlaceholder(LENGTH_IN_BITS + 1)

\* C17: a sibling equal to PLACEHOLDER enters the internal hash as it is, and
\* an internal node over two placeholders is not the placeholder; so a proof
\* without a leaf and with 1 <= n <= 256 siblings, queried as
\* verify(PLACEHOLDER, k, None), gives RootMismatch, and with no siblings
\* verify accepts only PLACEHOLDER (no leaf) or leaf.hash() (a leaf).
C17_PlaceholderLiteral ==
    Called =>
        /\ InternalHash(PLACEHOLDER, PLACEHOLDER) # PLACEHOLDER
        /\ LastSiblingLiteral
        /\ NoLeafNeverPlaceholder(LENGTH_IN_BITS)
        /\ NoSiblingsRoot

\* a proof without a leaf whose siblings are all the placeholder, rejected
\* against the placeholder root
C17_Witness ==
    /\ Called /\ proof.leaf = None /\ element_blob = None
    /\ NumSiblings >= 1
    /\ \A i \in 1 .. NumSiblings : proof.siblings[i] = PLACEHOLDER
    /\ expected_root = PLACEHOLDER
    /\ result = "RootMismatch"

\* the peer id that names the default files of an identity
PathPeerId(identity) ==
    IF identity.type = "FromConfig" THEN identity.peer_id ELSE PeerIdDefault

SavedOk == call.name = "save" /\ returned = "Ok"

\* C12: after a successful save seed_peers_file is not empty: it is what it
\* was if that was not empty, and "<peer_id>.seed_peers.toml" otherwise;
\* network_peers_file changes only when network_peers is not the default and
\* network_peers_file was empty, and then to
\* "<peer_id>.network_peers.config.toml"; identity, network_peers and
\* seed_peers are as before, and one more save leaves the config as it is.
C12_SavePaths ==
    SavedOk =>
        /\ ~is_empty(config.seed_peers_file)
        /\ config.seed_peers_file =
               (IF ~is_empty(before.seed_peers_file) THEN before.seed_peers_file
                ELSE PathPeerId(before.identity) \o <<"seed_peers.toml">>)
        /\ config.network_peers_file # before.network_peers_file =>
               /\ before.network_peers # NetworkPeersDefault
               /\ is_empty(before.network_peers_file)
        /\ (/\ before.network_peers # NetworkPeersDefault
            /\ is_empty(before.network_peers_file)) =>
               config.network_peers_file =
                   PathPeerId(before.identity) \o <<"network_peers.config.toml">>
        /\ (/\ before.network_peers = NetworkPeersDefault
            /\ is_empty(before.network_peers_file)) =>
               is_empty(config.network_peers_file)
        /\ config.identity = before.identity
        /\ config.network_peers = before.network_peers
        /\ config.seed_peers = before.seed_peers
        /\ \A io \in FileSystemOutcomes :
               SaveRun(config, files, RootDir, io).config = config

\* a successful save that names both files
C12_Witness ==
    /\ SavedOk
    /\ is_empty(before.seed_peers_file)
    /\ is_empty(before.network_peers_file)
    /\ ~is_empty(config.network_peers_file)
    /\ before.identity.type = "FromConfig"

\* a successful save of a config with the default network_peers
C12_WitnessDefaultPeers ==
    /\ SavedOk
    /\ before.network_peers = NetworkPeersDefault
    /\ is_empty(before.seed_peers_file)
    /\ is_empty(config.network_peers_file)

\* a load of a config that names neither file
LoadedDefaults ==
    /\ call.name = "load"
    /\ is_empty(before.network_peers_file)
    /\ is_empty(before.seed_peers_file)

\* the role for which C13 says that load succeeds
RoleAllows ==
    \/ call.network_role # "Validator"
    \/ DOMAIN before.network_peers.peers = {}

\* load left the peers and the paths alone, and an identity that was complete
PeersAndPathsKept ==
    /\ config.network_peers = before.network_peers
    /\ config.network_peers_file = before.network_peers_file
    /\ config.seed_peers = before.seed_peers
    /\ config.seed_peers_file = before.seed_peers_file
    /\ (\/ before.identity.type = "FromStorage"
        \/ /\ before.identity.type = "FromConfig"
           /\ before.identity.peer_id # PeerIdDefault) =>
           config.identity = before.identity

\* C13 as stated: a load of a config whose two file names are empty succeeds
\* for a non-validator role, or a validator with empty network_peers.
C13_AsStated ==
    LoadedDefaults =>
        /\ RoleAllows => returned = "Ok"
        /\ PeersAndPathsKept

\* C13: a load of a config whose two file names are empty leaves
\* network_peers, network_peers_file, seed_peers and seed_peers_file as they
\* were, and the identity too when it was FromStorage or FromConfig with a
\* peer id other than the default; for a non-validator role, or a validator
\* with empty network_peers, it succeeds exactly when listen_address is not
\* empty or utils::get_local_ip() returns an address.
C13_LoadDefaults ==
    LoadedDefaults =>
        /\ RoleAllows =>
               (returned = "Ok" <=>
                    (~is_empty(before.listen_address) \/ IsSome(call.local_ip)))
        /\ PeersAndPathsKept

\* a successful load of a config with empty file names and an identity from
\* the config with a peer id of its own
C13_Witness ==
    /\ LoadedDefaults /\ RoleAllows /\ returned = "Ok"
    /\ before.identity.type = "FromConfig"
    /\ before.identity.peer_id # PeerIdDefault
    /\ before.identity.peer_id # derived_address(public_key(before.identity.keypair))
    /\ before.network_peers # NetworkPeersDefault
    /\ before.seed_peers # SeedPeersDefault

\* a load with empty file names that finds no local IP for an empty
\* listen_address
C13_WitnessNoLocalIp ==
    /\ LoadedDefaults /\ RoleAllows /\ returned = "Err"
    /\ is_empty(before.listen_address)

LoadedAsValidator == call.name = "load" /\ call.network_role = "Validator"

\* C14: a load as a validator returns an error whenever network_peers_file
\* is not empty or network_peers has peers, and an error leaves the identity
\* exactly as it was; it returns Ok only if both are empty.
C14_ValidatorRestriction ==
    LoadedAsValidator =>
        /\ (\/ ~is_empty(before.network_peers_file)
            \/ DOMAIN before.network_peers.peers # {}
            \/ DOMAIN config.network_peers.peers # {}) => returned = "Err"
        /\ returned = "Err" => config.identity = before.identity
        /\ returned = "Ok" =>
               /\ is_empty(config.network_peers_file)
               /\ DOMAIN config.network_peers.peers = {}

\* a validator's load refused for its network_peers, on a config without an
\* identity and with nothing else to fail on
C14_Witness ==
    /\ LoadedAsValidator /\ returned = "Err"
    /\ is_empty(before.network_peers_file)
    /\ is_empty(before.seed_peers_file)
    /\ ~is_empty(before.listen_address)
    /\ DOMAIN before.network_peers.peers # {}
    /\ before.identity = IdentityNone
    /\ config.identity = IdentityNone

\* a validator's load refused for its network_peers_file, which names a file
\* that is there
C14_WitnessFile ==
    /\ LoadedAsValidator /\ returned = "Err"
    /\ ~is_empty(before.network_peers_file)
    /\ full_path(RootDir, before.network_peers_file) \in DOMAIN files
    /\ config.network_peers # before.network_peers

\* a validator's load that succeeds
C14_WitnessOk ==
    LoadedAsValidator /\ returned = "Ok" /\ ~is_empty(before.seed_peers_file)

\* what prepare_identity may do to the identity of config, whatever key the
\* generator returns
PrepareIdentityKeeps ==
    \A key \in PrivateKeys :
        LET old == config.identity
            new == prepare_identity(config, key).identity
        IN  /\ old.type = "FromStorage" => new = old
            /\ old.type = "FromConfig" =>
                   /\ new.type = "FromConfig"
                   /\ new.keypair = old.keypair
                   /\ new.peer_id # old.peer_id => old.peer_id = PeerIdDefault
            /\ new # IdentityNone

\* C15: a config from network_with_id or Default has an identity, and keeps
\* one through load, save, random and random_with_peer_id; prepare_identity
\* leaves a FromStorage identity alone, keeps the key of a FromConfig
\* identity and replaces its peer id only if that is PeerId::default(); only
\* clone_for_template makes the identity None, and a successful load of such
\* a config makes it FromConfig.
C15_IdentityPrepared ==
    /\ calls = 0 => config.identity # IdentityNone
    /\ call.name = "network_with_id" => config.identity # IdentityNone
    /\ (/\ call.name \in {"load", "save", "random", "random_with_peer_id"}
        /\ before.identity # IdentityNone) => config.identity # IdentityNone
    /\ PrepareIdentityKeeps
    /\ (config.identity = IdentityNone /\ before.identity # IdentityNone) =>
           call.name = "clone_for_template"
    /\ call.name = "clone_for_template" => config.identity = IdentityNone
    /\ (call.name = "load" /\ returned = "Ok" /\ before.identity = IdentityNone) =>
           config.identity.type = "FromConfig"

\* a successful load of a clone_for_template
C15_Witness ==
    /\ call.name = "load" /\ returned = "Ok"
    /\ before.identity = IdentityNone
    /\ config.identity.type = "FromConfig"

\* a successful load that replaces the default peer id of an identity
C15_WitnessDefaultPeerId ==
    /\ call.name = "load" /\ returned = "Ok"
    /\ before.identity.type = "FromConfig"
    /\ before.identity.peer_id = PeerIdDefault
    /\ config.identity.peer_id = derived_address(public_key(before.identity.keypair))
====
